---- MODULE Spec2Model ----
(***************************************************************************)
(* OnionTravel backend: the exchange-rate store and resolver               *)
(* (app/services/currency.py), the expense write path and the daily budget *)
(* statistics (app/services/expense_service.py), trips                     *)
(* (app/services/trip.py).                                                 *)
(*                                                                         *)
(* Dates are day numbers 0..MaxDay.  Decimal / float values are exact      *)
(* rationals <<numerator, denominator>> in lowest terms; the rates and     *)
(* amounts the model feeds in are chosen so that every product, quotient   *)
(* and reciprocal that the code computes on them is exactly representable  *)
(* (the code's Decimal("1.0") / rate on 0.5, 2 or 4 is exact).             *)
(***************************************************************************)
EXTENDS Integers, Sequences, FiniteSets, TLC

VARIABLES today, exchange_rates, trips, expenses, last, sessions, scheduler

vars == <<today, exchange_rates, trips, expenses, last, sessions, scheduler>>

----------------------------------------------------------------------------
(* Bounds *)

MaxDay == 2

MaxRows == 2

MaxTrips == 2

MaxExpenses == 1

HistDays == 6

HistRows == 2

----------------------------------------------------------------------------
(* Values *)

Currencies == {"USD", "THB"}

Dates == 0..MaxDay

\* rate_date=None (currency.py: "rate_date: Optional[date] = None")
NoDate == 0 - 1

\* Python None for an Optional[Decimal]
None == <<0, 0>>

RECURSIVE GCD(_, _)
GCD(a, b) == IF b = 0 THEN a ELSE GCD(b, a % b)

Abs(x) == IF x < 0 THEN 0 - x ELSE x

Norm(q) ==
    LET g == GCD(Abs(q[1]), Abs(q[2]))
        s == IF q[2] < 0 THEN 0 - 1 ELSE 1
    IN  <<(s * q[1]) \div g, (s * q[2]) \div g>>

Rat(n) == <<n, 1>>

One == Rat(1)

Zero == Rat(0)

RMul(a, b) == Norm(<<a[1] * b[1], a[2] * b[2]>>)

RAdd(a, b) == Norm(<<a[1] * b[2] + b[1] * a[2], a[2] * b[2]>>)

RSub(a, b) == RAdd(a, <<0 - b[1], b[2]>>)

RDivInt(a, n) == Norm(<<a[1], a[2] * n>>)

RLess(a, b) == a[1] * b[2] < b[1] * a[2]

\* Decimal("1.0") / rate
Inv(r) == Norm(<<r[2], r[1]>>)

\* Python truthiness of an Optional[Decimal]: None and 0 are falsy
Truthy(r) == r # None /\ r[1] # 0

\* Rates handed to the store: positive, with exact decimal reciprocals
Rates == {<<1, 2>>, <<4, 1>>}

Max(S) == CHOOSE x \in S : \A y \in S : y <= x

Min(S) == CHOOSE x \in S : \A y \in S : x <= y

\* Orders in which the database can return the rows of a table
Orders(S) ==
    {o \in [1..Cardinality(S) -> S] : \A i, j \in 1..Cardinality(S) : o[i] = o[j] => i = j}

----------------------------------------------------------------------------
(* Rate store: the exchange_rates table *)

Row(f, t, r, d) == [from_currency |-> f, to_currency |-> t, rate |-> r, date |-> d]

Find(R, f, t, d) ==
    {x \in R : x.from_currency = f /\ x.to_currency = t /\ x.date = d}

FindPair(R, f, t) ==
    {x \in R : x.from_currency = f /\ x.to_currency = t}

\* Query.first(): one of the matching rows
First(S) == CHOOSE x \in S : TRUE

\* .order_by(ExchangeRate.date.desc()).first()
MostRecent(S) == CHOOSE x \in S : \A y \in S : y.date <= x.date

\* Variant: the reverse row's rate returned as it is stored
get_rate_from_db_raw_reverse(R, T, f, t, rate_date) ==
    LET d == IF rate_date = NoDate THEN T ELSE rate_date
        rate_record == Find(R, f, t, d)
        reverse_rate == Find(R, t, f, d)
    IN  IF rate_record # {} THEN First(rate_record).rate
        ELSE IF reverse_rate # {} THEN First(reverse_rate).rate
        ELSE None

get_rate_from_db(R, T, f, t, rate_date) ==
    LET d == IF rate_date = NoDate THEN T ELSE rate_date
        rate_record == Find(R, f, t, d)
        reverse_rate == Find(R, t, f, d)
    IN  IF rate_record # {} THEN First(rate_record).rate
        ELSE IF reverse_rate # {} THEN Inv(First(reverse_rate).rate)
        ELSE None

\* Variant: the most recent row consulted before today's row
get_rate_recent_first(R, T, f, t, rate_date) ==
    LET rate == get_rate_from_db(R, T, f, t, rate_date)
        today_rate == get_rate_from_db(R, T, f, t, T)
        recent_rate == FindPair(R, f, t)
        reverse_recent == FindPair(R, t, f)
    IN  IF f = t THEN One
        ELSE IF Truthy(rate) THEN rate
        ELSE IF recent_rate # {} THEN MostRecent(recent_rate).rate
        ELSE IF rate_date # NoDate /\ rate_date # T /\ Truthy(today_rate)
             THEN today_rate
        ELSE IF reverse_recent # {} THEN Inv(MostRecent(reverse_recent).rate)
        ELSE None

get_rate(R, T, f, t, rate_date) ==
    LET rate == get_rate_from_db(R, T, f, t, rate_date)
        today_rate == get_rate_from_db(R, T, f, t, T)
        recent_rate == FindPair(R, f, t)
        reverse_recent == FindPair(R, t, f)
    IN  IF f = t THEN One
        ELSE IF Truthy(rate) THEN rate
        ELSE IF rate_date # NoDate /\ rate_date # T /\ Truthy(today_rate)
             THEN today_rate
        ELSE IF recent_rate # {} THEN MostRecent(recent_rate).rate
        ELSE IF reverse_recent # {} THEN Inv(MostRecent(reverse_recent).rate)
        ELSE None

convert_amount(R, T, amount, f, t, rate_date) ==
    LET rate == get_rate(R, T, f, t, rate_date)
    IN  IF Truthy(rate) THEN RMul(amount, rate) ELSE None

\* Variant: a rate whose key is taken is filed under the following day
UpsertRow_append(R, f, t, r, d) ==
    IF Find(R, f, t, d) # {} THEN R \cup {Row(f, t, r, d + 1)} ELSE R \cup {Row(f, t, r, d)}

\* Variant: the row added without looking for an existing one
UpsertRow_insert_only(R, f, t, r, d) == R \cup {Row(f, t, r, d)}

\* The rows after the check-then-update-or-insert of save_rate
UpsertRow(R, f, t, r, d) ==
    LET existing_rate == Find(R, f, t, d)
    IN  IF existing_rate # {}
        THEN (R \ {First(existing_rate)}) \cup {Row(f, t, r, d)}
        ELSE R \cup {Row(f, t, r, d)}

\* Variant: the base's own entry of the dict saved like the others
RECURSIVE SaveAll_with_self(_, _, _, _)
SaveAll_with_self(R, base, rates, d) ==
    IF DOMAIN rates = {} THEN R
    ELSE LET to == CHOOSE c \in DOMAIN rates : TRUE
             rest == [c \in DOMAIN rates \ {to} |-> rates[c]]
         IN  SaveAll_with_self(UpsertRow(R, base, to, rates[to], d), base, rest, d)

\* save_rates_for_currency: one upsert per entry of the rates dict,
\* the self pair skipped
RECURSIVE SaveAll(_, _, _, _)
SaveAll(R, base, rates, d) ==
    IF DOMAIN rates = {} THEN R
    ELSE LET to == CHOOSE c \in DOMAIN rates : TRUE
             rest == [c \in DOMAIN rates \ {to} |-> rates[c]]
         IN  IF to = base THEN SaveAll(R, base, rest, d)
             ELSE SaveAll(UpsertRow(R, base, to, rates[to], d), base, rest, d)

\* Provider answers the refresh job can receive for one base currency: the
\* empty dict (exception or non-success result) or a rate for every currency,
\* the base itself at 1
ProviderAnswers(base) ==
    {<<>>} \cup {m \in [Currencies -> Rates \cup {One}] : m[base] = One /\ \A c \in Currencies \ {base} : m[c] \in Rates}

----------------------------------------------------------------------------
(* Trips *)

\* Optional[Decimal] budget inputs of TripCreate
NoBudget == None

Trip(s, e, c, tb, db) ==
    [start_date |-> s, end_date |-> e, currency_code |-> c,
     total_budget |-> tb, daily_budget |-> db]

\* create_trip: the budget the caller left out is derived from the other
create_trip_budgets(s, e, tb, db) ==
    LET trip_days == (e - s) + 1
    IN  IF Truthy(tb) /\ ~Truthy(db) THEN <<tb, RDivInt(tb, trip_days)>>
        ELSE IF Truthy(db) /\ ~Truthy(tb) THEN <<RMul(db, Rat(trip_days)), db>>
        ELSE <<tb, db>>

\* get_unique_trip_currencies
get_unique_trip_currencies(TT) == {TT[i].currency_code : i \in DOMAIN TT}

----------------------------------------------------------------------------
(* Initial state: empty database *)

\* No save_rate call is under way
NoSessions == <<>>

\* scheduler = BackgroundScheduler(): not started, no job added
StoppedScheduler == [running |-> FALSE, pending |-> <<>>, jobs |-> <<>>]

Init ==
    /\ today = 0
    /\ exchange_rates = {}
    /\ trips = <<>>
    /\ expenses = <<>>
    /\ last = [op |-> "init"]
    /\ sessions = NoSessions
    /\ scheduler = StoppedScheduler

AdvanceDay ==
    /\ today < MaxDay
    /\ today' = today + 1
    /\ last' = [op |-> "advance_day"]
    /\ UNCHANGED <<exchange_rates, trips, expenses, sessions, scheduler>>

----------------------------------------------------------------------------
(* Rate store operations *)

SaveRate(f, t, r, rate_date) ==
    LET d == IF rate_date = NoDate THEN today ELSE rate_date
        R == UpsertRow(exchange_rates, f, t, r, d)
    IN  /\ Cardinality(R) <= MaxRows
        /\ exchange_rates' = R
        /\ last' = [op |-> "save_rate", from |-> f, to |-> t, rate |-> r, date |-> d,
                    existing |-> Find(exchange_rates, f, t, d) # {}]
        /\ UNCHANGED <<today, trips, expenses, sessions, scheduler>>

SaveRatesForCurrency(base, rates, rate_date) ==
    LET d == IF rate_date = NoDate THEN today ELSE rate_date
        R == SaveAll(exchange_rates, base, rates, d)
    IN  /\ Cardinality(R) <= MaxRows
        /\ exchange_rates' = R
        /\ last' = [op |-> "save_rates_for_currency", base |-> base,
                    rates |-> rates, date |-> d]
        /\ UNCHANGED <<today, trips, expenses, sessions, scheduler>>

\* Variant: a pair without rows is fetched from the provider and stored
read_path_write_through(R, T, f, t) ==
    IF f # t /\ FindPair(R, f, t) = {} /\ FindPair(R, t, f) = {}
    THEN [store |-> R \cup {Row(f, t, One, T)}, calls |-> <<f>>]
    ELSE [store |-> R, calls |-> <<>>]

\* The rows after a call of the read path and the requests it sent to the
\* provider: get_rate_from_db, get_rate, convert_amount and
\* get_historical_rates only query; none of them adds, changes or deletes a
\* row, commits, or sends a request
read_path(R, T, f, t) == [store |-> R, calls |-> <<>>]

GetRateFromDb(f, t, rate_date) ==
    /\ last' = [op |-> "get_rate_from_db", from |-> f, to |-> t, date |-> rate_date,
                result |-> get_rate_from_db(exchange_rates, today, f, t, rate_date),
                calls |-> read_path(exchange_rates, today, f, t).calls]
    /\ exchange_rates' = read_path(exchange_rates, today, f, t).store
    /\ UNCHANGED <<today, trips, expenses, sessions, scheduler>>

GetRate(f, t, rate_date) ==
    /\ last' = [op |-> "get_rate", from |-> f, to |-> t, date |-> rate_date,
                result |-> get_rate(exchange_rates, today, f, t, rate_date),
                calls |-> read_path(exchange_rates, today, f, t).calls,
                again |-> /\ last.op = "get_rate" /\ last.from = f /\ last.to = t
                          /\ last.date = rate_date]
    /\ exchange_rates' = read_path(exchange_rates, today, f, t).store
    /\ UNCHANGED <<today, trips, expenses, sessions, scheduler>>

ConvertAmount(amount, f, t, rate_date) ==
    /\ last' = [op |-> "convert_amount", amount |-> amount, from |-> f, to |-> t,
                date |-> rate_date,
                result |-> convert_amount(exchange_rates, today, amount, f, t, rate_date),
                calls |-> read_path(exchange_rates, today, f, t).calls]
    /\ exchange_rates' = read_path(exchange_rates, today, f, t).store
    /\ UNCHANGED <<today, trips, expenses, sessions, scheduler>>

DistinctPairs == {p \in Currencies \X Currencies : p[1] # p[2]}

DateArgs == Dates \cup {NoDate}

NextRate ==
    \/ AdvanceDay
    \/ \E p \in DistinctPairs, r \in Rates, d \in DateArgs : SaveRate(p[1], p[2], r, d)
    \/ \E f \in Currencies, t \in Currencies, d \in DateArgs : GetRateFromDb(f, t, d)
    \/ \E f \in Currencies, t \in Currencies, d \in DateArgs : GetRate(f, t, d)
    \/ \E f \in Currencies, t \in Currencies : ConvertAmount(Rat(3), f, t, NoDate)

SpecRate == Init /\ [][NextRate]_vars

----------------------------------------------------------------------------
(* Trips and the refresh job *)

CreateTrip(s, e, c, tb, db) ==
    /\ Len(trips) < MaxTrips
    /\ IF s > e
       THEN /\ last' = [op |-> "create_trip", ok |-> FALSE]
            /\ UNCHANGED trips
       ELSE LET b == create_trip_budgets(s, e, tb, db)
            IN  /\ trips' = Append(trips, Trip(s, e, c, b[1], b[2]))
                /\ last' = [op |-> "create_trip", ok |-> TRUE, trip_id |-> Len(trips) + 1]
    /\ UNCHANGED <<today, exchange_rates, expenses, sessions, scheduler>>

\* How a save_rates_for_currency call of a refresh run can end: without an
\* exception, with an exception of its first query (the session stays usable),
\* or with an exception of its commit.  A commit that fails in its flush
\* leaves the session's transaction inactive until rollback() is called, and
\* neither save_rates_for_currency nor update_all_rates calls it.
SaveFaults == {"none", "query", "commit"}

\* The run before its first base currency: the store, whether the session's
\* transaction is usable, the provider calls made, the bases whose rates were
\* committed, the two counters, and whether an exception left the run
StartRun(R) ==
    [store |-> R, active |-> TRUE, calls |-> <<>>, persisted |-> {},
     success_count |-> 0, error_count |-> 0, raised |-> FALSE]

\* Variant: a base whose fetch returned nothing is fetched once more
RECURSIVE RefreshAll_retry(_, _, _, _, _)
RefreshAll_retry(run, bases, answers, faults, d) ==
    IF bases = <<>> THEN run
    ELSE LET base_currency == Head(bases)
             rates == answers[base_currency]
             fetched == [run EXCEPT !.calls = Append(@, base_currency)]
             again == [fetched EXCEPT !.calls = Append(@, base_currency)]
             next == IF DOMAIN rates = {}
                     THEN [again EXCEPT !.error_count = @ + 1]
                     ELSE [fetched EXCEPT
                              !.store = SaveAll(run.store, base_currency, rates, d),
                              !.persisted = @ \cup {base_currency},
                              !.success_count = @ + 1]
         IN  RefreshAll_retry(next, Tail(bases), answers, faults, d)

\* The loop of update_all_rates: one provider call per base currency, its
\* answer saved with save_rates_for_currency when it is not empty, every
\* exception of the save caught and counted
RECURSIVE RefreshAll(_, _, _, _, _)
RefreshAll(run, bases, answers, faults, d) ==
    IF bases = <<>> THEN run
    ELSE LET base_currency == Head(bases)
             rates == answers[base_currency]
             fetched == [run EXCEPT !.calls = Append(@, base_currency)]
             failed == [fetched EXCEPT !.error_count = @ + 1]
             next == IF DOMAIN rates = {} THEN failed
                     ELSE IF ~run.active THEN failed
                     ELSE IF faults[base_currency] = "query" THEN failed
                     ELSE IF faults[base_currency] = "commit"
                     THEN [failed EXCEPT !.active = FALSE]
                     ELSE [fetched EXCEPT
                              !.store = SaveAll(run.store, base_currency, rates, d),
                              !.persisted = @ \cup {base_currency},
                              !.success_count = @ + 1]
         IN  RefreshAll(next, Tail(bases), answers, faults, d)

\* update_all_rates on the trip currencies in the order the query returns
\* them; trips_fault: the query of the trip currencies raises
update_all_rates(R, bases, trips_fault, answers, faults, d) ==
    IF trips_fault THEN [StartRun(R) EXCEPT !.raised = TRUE]
    ELSE IF bases = <<>> THEN StartRun(R)
    ELSE RefreshAll(StartRun(R), bases, answers, faults, d)

\* Variant: the scheduled task without its except clause
update_exchange_rates_uncaught(run) == IF run.raised THEN "raised" ELSE "updated"

\* What the scheduler sees of the task update_exchange_rates
update_exchange_rates(run) == IF run.raised THEN "logged" ELSE "updated"

\* One scheduled run in a given environment
UpdateExchangeRates(bases, trips_fault, answers, faults) ==
    LET run == update_all_rates(exchange_rates, bases, trips_fault, answers, faults, today)
    IN  /\ Cardinality(run.store) <= MaxRows
        /\ exchange_rates' = run.store
        /\ last' = [op |-> "update_all_rates", date |-> today,
                    trips_fault |-> trips_fault, answers |-> answers, faults |-> faults,
                    calls |-> run.calls, persisted |-> run.persisted,
                    success_count |-> run.success_count,
                    error_count |-> run.error_count,
                    outcome |-> update_exchange_rates(run),
                    repeat |-> /\ last.op = "update_all_rates"
                               /\ last.date = today /\ last.answers = answers]
        /\ UNCHANGED <<today, trips, expenses, sessions, scheduler>>

\* Provider answers of one run, one for each currency the run can ask for
RunAnswers(S) ==
    {answers \in [S -> UNION {ProviderAnswers(b) : b \in Currencies}] :
        \A b \in S : answers[b] \in ProviderAnswers(b)}

NoFaults(S) == [b \in S |-> "none"]

\* The currencies of the trips in the order of their first trip, the order in
\* which a scan of the trips table meets them
RECURSIVE ScanOrder(_, _)
ScanOrder(TT, seen) ==
    IF TT = <<>> THEN <<>>
    ELSE IF Head(TT).currency_code \in seen THEN ScanOrder(Tail(TT), seen)
         ELSE <<Head(TT).currency_code>>
              \o ScanOrder(Tail(TT), seen \cup {Head(TT).currency_code})

\* A run in which the database does not fail and yields the currencies in
\* scan order
UpdateAllRates ==
    LET trip_currencies == get_unique_trip_currencies(trips)
    IN  \E answers \in RunAnswers(trip_currencies) :
            UpdateExchangeRates(ScanOrder(trips, {}), FALSE, answers,
                                NoFaults(trip_currencies))

\* Dicts handed to save_rates_for_currency directly: a rate for every currency,
\* the base's own entry included
FullRateMaps == [Currencies -> Rates]

NextStore ==
    \/ AdvanceDay
    \/ \E c \in Currencies : CreateTrip(0, MaxDay, c, NoBudget, NoBudget)
    \/ \E p \in DistinctPairs, r \in Rates : SaveRate(p[1], p[2], r, NoDate)
    \/ \E b \in Currencies, m \in FullRateMaps : SaveRatesForCurrency(b, m, NoDate)
    \/ UpdateAllRates

SpecStore == Init /\ [][NextStore]_vars

----------------------------------------------------------------------------
(* get_historical_rates *)

\* rates_map: a Python dict, kept as the sequence of its <<date, rate>> items
\* in insertion order
MapHas(m, d) == \E i \in 1..Len(m) : m[i][1] = d

MapGet(m, d) == m[CHOOSE i \in 1..Len(m) : m[i][1] = d][2]

\* {r.date: float(r.rate) for r in existing_rates}
RECURSIVE DirectMap(_)
DirectMap(rows) ==
    IF rows = <<>> THEN <<>>
    ELSE <<<<Head(rows).date, Head(rows).rate>>>> \o DirectMap(Tail(rows))

\* Variant: a reverse row replaces the entry of its date
RECURSIVE AddReverse_overwrite(_, _)
AddReverse_overwrite(m, rows) ==
    IF rows = <<>> THEN m
    ELSE LET r == Head(rows)
             kept == SelectSeq(m, LAMBDA it : it[1] # r.date)
         IN  AddReverse_overwrite(Append(kept, <<r.date, Inv(r.rate)>>), Tail(rows))

\* for r in reverse_rates: if r.date not in rates_map: rates_map[r.date] = 1/r.rate
RECURSIVE AddReverse(_, _)
AddReverse(m, rows) ==
    IF rows = <<>> THEN m
    ELSE LET r == Head(rows)
         IN  IF MapHas(m, r.date) THEN AddReverse(m, Tail(rows))
             ELSE AddReverse(Append(m, <<r.date, Inv(r.rate)>>), Tail(rows))

\* min(rates_map.keys(), key=lambda x: abs((x - d).days)): the first key, in
\* the dict's order, at the least distance
NearestKey(m, d) ==
    LET i == CHOOSE i \in 1..Len(m) :
                 /\ \A j \in 1..Len(m) : Abs(m[i][1] - d) <= Abs(m[j][1] - d)
                 /\ \A j \in 1..(i - 1) : Abs(m[j][1] - d) > Abs(m[i][1] - d)
    IN  m[i][1]

\* for d in all_dates: if d not in rates_map: rates_map[d] = rates_map[nearest]
\* (the dict grows while the loop runs)
RECURSIVE FillMissing(_, _, _)
FillMissing(m, d, end_date) ==
    IF d > end_date THEN m
    ELSE IF MapHas(m, d) THEN FillMissing(m, d + 1, end_date)
    ELSE FillMissing(Append(m, <<d, MapGet(m, NearestKey(m, d))>>), d + 1, end_date)

\* [{"date": d, "rate": ...} for d in all_dates if rates_map.get(d)], by date
RECURSIVE Series(_, _, _)
Series(m, d, end_date) ==
    IF d > end_date THEN <<>>
    ELSE IF MapHas(m, d) /\ Truthy(MapGet(m, d))
         THEN <<[date |-> d, rate |-> MapGet(m, d)]>> \o Series(m, d + 1, end_date)
         ELSE Series(m, d + 1, end_date)

RECURSIVE OnesSeries(_, _)
OnesSeries(d, end_date) ==
    IF d > end_date THEN <<>>
    ELSE <<[date |-> d, rate |-> One]>> \o OnesSeries(d + 1, end_date)

\* table_order: the rows of the table in the order the database returns them
\* (no ORDER BY in the two queries)
historical_series(table_order, T, from_currency, to_currency, days) ==
    LET end_date == T
        start_date == T - (days - 1)
        InRange(r) == r.date >= start_date /\ r.date <= end_date
        existing_rates == SelectSeq(table_order,
            LAMBDA r : r.from_currency = from_currency /\ r.to_currency = to_currency
                        /\ InRange(r))
        reverse_rates == SelectSeq(table_order,
            LAMBDA r : r.from_currency = to_currency /\ r.to_currency = from_currency
                        /\ InRange(r))
        rates_map == AddReverse(DirectMap(existing_rates), reverse_rates)
        filled == IF rates_map # <<>> THEN FillMissing(rates_map, start_date, end_date)
                  ELSE rates_map
    IN  IF from_currency = to_currency THEN OnesSeries(start_date, end_date)
        ELSE Series(filled, start_date, end_date)

get_historical_rates(table_order, T, from_currencies, to_currency, days) ==
    [c \in {from_currencies[i] : i \in 1..Len(from_currencies)} |->
        historical_series(table_order, T, c, to_currency, days)]

GetHistoricalRates(from_currencies, to_currency, days) ==
    /\ \E table_order \in Orders(exchange_rates) :
         last' = [op |-> "get_historical_rates", from_currencies |-> from_currencies,
                  to |-> to_currency, days |-> days,
                  result |-> get_historical_rates(table_order, today, from_currencies,
                                                  to_currency, days),
                  calls |-> read_path(exchange_rates, today, from_currencies[1],
                                      to_currency).calls]
    /\ exchange_rates' = read_path(exchange_rates, today, from_currencies[1],
                                   to_currency).store
    /\ UNCHANGED <<today, trips, expenses, sessions, scheduler>>

HistDates == 0..(HistDays - 1)

HistKeys == DistinctPairs \X HistDates

\* Stores save_rate can have built: at most one row per triple
HistStores ==
    UNION {{ {Row(k[1][1], k[1][2], rf[k], k[2]) : k \in K} : rf \in [K -> Rates] } :
             K \in {K \in SUBSET HistKeys : Cardinality(K) <= HistRows}}

FromLists == {<<c>> : c \in Currencies} \cup {<<"USD", "THB">>}

InitHist ==
    /\ today = HistDays - 1
    /\ exchange_rates \in HistStores
    /\ trips = <<>>
    /\ expenses = <<>>
    /\ last = [op |-> "init"]
    /\ sessions = NoSessions
    /\ scheduler = StoppedScheduler

\* One call on the drawn store
NextHist ==
    /\ last.op = "init"
    /\ \E fl \in FromLists, t \in Currencies, days \in 1..HistDays :
          GetHistoricalRates(fl, t, days)

SpecHist == InitHist /\ [][NextHist]_vars

----------------------------------------------------------------------------
(* Properties of the rate store and the resolver *)

HasRow(a, b, x) ==
    \E row \in exchange_rates :
        row.from_currency = a /\ row.to_currency = b /\ row.date = x

RowRate(a, b, x) ==
    (CHOOSE row \in exchange_rates :
        row.from_currency = a /\ row.to_currency = b /\ row.date = x).rate

HasPair(a, b) ==
    \E row \in exchange_rates : row.from_currency = a /\ row.to_currency = b

LatestRate(a, b) ==
    LET ds == {row.date : row \in {x \in exchange_rates :
                                      x.from_currency = a /\ x.to_currency = b}}
    IN  RowRate(a, b, Max(ds))

C1_Expected(f, t, d) ==
    LET d0 == IF d = NoDate THEN today ELSE d
        historical == d # NoDate /\ d # today
    IN  IF f = t THEN One
        ELSE IF HasRow(f, t, d0) THEN RowRate(f, t, d0)
        ELSE IF HasRow(t, f, d0) THEN Inv(RowRate(t, f, d0))
        ELSE IF historical /\ HasRow(f, t, today) THEN RowRate(f, t, today)
        ELSE IF historical /\ HasRow(t, f, today) THEN Inv(RowRate(t, f, today))
        ELSE IF HasPair(f, t) THEN LatestRate(f, t)
        ELSE IF HasPair(t, f) THEN Inv(LatestRate(t, f))
        ELSE None

C4_Unique ==
    \A x \in exchange_rates, y \in exchange_rates :
        (x.from_currency = y.from_currency /\ x.to_currency = y.to_currency
            /\ x.date = y.date) => x = y

SameKey(row, f, t, d) ==
    row.from_currency = f /\ row.to_currency = t /\ row.date = d

C4_SaveRateStep ==
    last'.op = "save_rate" =>
        LET f == last'.from
            t == last'.to
            d == last'.date
            existed == \E row \in exchange_rates : SameKey(row, f, t, d)
        IN  /\ {row \in exchange_rates' : SameKey(row, f, t, d)}
                = {Row(f, t, last'.rate, d)}
            /\ {row \in exchange_rates' : ~SameKey(row, f, t, d)}
                = {row \in exchange_rates : ~SameKey(row, f, t, d)}
            /\ Cardinality(exchange_rates') =
                 Cardinality(exchange_rates) + (IF existed THEN 0 ELSE 1)

\* C4: the store never holds two rows for one (from, to, date) triple,
\* whatever save_rate, save_rates_for_currency and refresh runs did; a
\* save_rate step leaves exactly one row for its triple, holding the rate
\* given, adds a row only if the triple was new and leaves every other row
\* as it was.
C4_UniqueUpsert == [](C4_Unique) /\ [][C4_SaveRateStep]_vars

\* save_rate replaced the rate of an existing row while another row is stored
C4_Witness ==
    /\ last.op = "save_rate"
    /\ last.existing
    /\ Cardinality(exchange_rates) = 2
    /\ HasRow(last.from, last.to, last.date)
    /\ RowRate(last.from, last.to, last.date) = last.rate

\* C7: with (A,B,d) stored at rate r and (B,A,d) not stored, get_rate and
\* get_rate_from_db for (B,A,d) return 1/r; with both stored they return the
\* stored (B,A,d) rate.
C7_ReverseRate ==
    last.op \in {"get_rate", "get_rate_from_db"} =>
        LET B == last.from
            A == last.to
            d == IF last.date = NoDate THEN today ELSE last.date
        IN  /\ (HasRow(A, B, d) /\ ~HasRow(B, A, d))
                 => last.result = Inv(RowRate(A, B, d))
            /\ (HasRow(A, B, d) /\ HasRow(B, A, d))
                 => last.result = RowRate(B, A, d)

\* get_rate answered a dated request from the reverse row alone
C7_Witness ==
    /\ last.op = "get_rate"
    /\ last.date # NoDate /\ last.date # today
    /\ HasRow(last.to, last.from, last.date)
    /\ ~HasRow(last.from, last.to, last.date)
    /\ last.result = Inv(RowRate(last.to, last.from, last.date))
    /\ last.result # RowRate(last.to, last.from, last.date)

----------------------------------------------------------------------------
(* Properties of get_historical_rates *)

\* Dates of the window of the last call with a stored direct or reverse row
StoredDates(f, t, start_date) ==
    {d \in start_date..today : HasRow(f, t, d) \/ HasRow(t, f, d)}

\* The rate the stored rows give for one of those dates
StoredRate(f, t, d) ==
    IF HasRow(f, t, d) THEN RowRate(f, t, d) ELSE Inv(RowRate(t, f, d))

SeriesRateAt(series, d) ==
    (CHOOSE e \in {series[i] : i \in 1..Len(series)} : e.date = d).rate

\* C5: for distinct currencies with a stored row in the window, a date
\* without stored row gets the rate of a stored date at the least distance.
C5_NearestStored ==
    last.op = "get_historical_rates" =>
        \A f \in DOMAIN last.result :
            LET start_date == today - (last.days - 1)
                stored == StoredDates(f, last.to, start_date)
                series == last.result[f]
            IN  (f # last.to /\ stored # {}) =>
                  \A d \in (start_date..today) \ stored :
                    /\ \E e \in {series[i] : i \in 1..Len(series)} : e.date = d
                    /\ \E s \in stored :
                         /\ \A s2 \in stored : Abs(s - d) <= Abs(s2 - d)
                         /\ SeriesRateAt(series, d) = StoredRate(f, last.to, s)

\* C6: each requested currency gets an empty series (no stored row of the
\* pair in the window) or one entry per date of the window in ascending
\* order; a date with a stored direct row carries that rate; the target
\* currency itself gets 1.0 on every date.
C6_SeriesShape ==
    last.op = "get_historical_rates" =>
        /\ DOMAIN last.result = {last.from_currencies[i] : i \in 1..Len(last.from_currencies)}
        /\ \A f \in DOMAIN last.result :
            LET start_date == today - (last.days - 1)
                stored == StoredDates(f, last.to, start_date)
                series == last.result[f]
            IN  IF f # last.to /\ stored = {} THEN series = <<>>
                ELSE /\ Len(series) = last.days
                     /\ \A i \in 1..Len(series) :
                          /\ series[i].date = start_date + (i - 1)
                          /\ f = last.to => series[i].rate = One
                          /\ (f # last.to /\ HasRow(f, last.to, series[i].date))
                               => series[i].rate = RowRate(f, last.to, series[i].date)

\* A full series that carries a direct row's rate on a date where the
\* reverse row is stored too, next to a gap that was filled
C6_Witness ==
    /\ last.op = "get_historical_rates"
    /\ \E f \in DOMAIN last.result :
         /\ f # last.to
         /\ Len(last.result[f]) = last.days
         /\ last.days >= 3
         /\ \E i \in 1..last.days :
              LET e == last.result[f][i]
              IN  /\ HasRow(f, last.to, e.date) /\ HasRow(last.to, f, e.date)
                  /\ e.rate = RowRate(f, last.to, e.date)
                  /\ e.rate # Inv(RowRate(last.to, f, e.date))
         /\ \E i \in 1..last.days :
              LET e == last.result[f][i]
              IN  ~HasRow(f, last.to, e.date) /\ ~HasRow(last.to, f, e.date)

----------------------------------------------------------------------------
(* Categories: create_trip gives every trip the default categories *)

\* budget_percentage of DEFAULT_CATEGORIES, in creation order
DEFAULT_CATEGORIES == <<35, 20, 25, 15, 5, 0, 0, 0>>

\* Ids of the categories of a trip, in display order
CategoryIds(trip_id) ==
    [k \in 1..Len(DEFAULT_CATEGORIES) |-> (trip_id - 1) * Len(DEFAULT_CATEGORIES) + k]

CategoryOfTrip(category_id, trip_id) ==
    \E k \in 1..Len(DEFAULT_CATEGORIES) : CategoryIds(trip_id)[k] = category_id

----------------------------------------------------------------------------
(* Expenses: create, update, delete *)

Expense(trip_id, category_id, amount, currency_code, exchange_rate, amount_in_trip_currency, start_date, end_date) ==
    [trip_id |-> trip_id, category_id |-> category_id, amount |-> amount,
     currency_code |-> currency_code, exchange_rate |-> exchange_rate,
     amount_in_trip_currency |-> amount_in_trip_currency,
     start_date |-> start_date, end_date |-> end_date]

\* "await x": x has to be an awaitable.  CurrencyService.get_rate is a plain
\* function (currency.py:75, "def get_rate"), so what the write path awaits
\* is its return value, a Decimal or None, and the await raises TypeError.
IsAwaitable(v) == FALSE

\* Variant: a missing rate replaced by 1.0 and the write carried on
conversion_default_one(R, T, amount, currency, trip_currency, rate_date) ==
    IF currency # trip_currency
    THEN LET found == get_rate(R, T, currency, trip_currency, rate_date)
             rate == IF Truthy(found) THEN found ELSE One
         IN  [status |-> "ok", resolved |-> found, exchange_rate |-> rate,
              amount_in_trip_currency |-> RMul(amount, rate)]
    ELSE [status |-> "ok", resolved |-> None, exchange_rate |-> One,
          amount_in_trip_currency |-> amount]

\* The conversion step of create_expense and update_expense
conversion(R, T, amount, currency, trip_currency, rate_date) ==
    IF currency # trip_currency
    THEN LET resolved == get_rate(R, T, currency, trip_currency, rate_date)
         IN  IF ~IsAwaitable(resolved)
             THEN [status |-> "type_error", resolved |-> resolved,
                   exchange_rate |-> None, amount_in_trip_currency |-> None]
             ELSE IF ~Truthy(resolved)
             THEN [status |-> "bad_request", resolved |-> resolved,
                   exchange_rate |-> None, amount_in_trip_currency |-> None]
             ELSE [status |-> "ok", resolved |-> resolved, exchange_rate |-> resolved,
                   amount_in_trip_currency |-> RMul(amount, resolved)]
    ELSE [status |-> "ok", resolved |-> None, exchange_rate |-> One,
          amount_in_trip_currency |-> amount]

\* ExpenseBase.validate_date_range
validate_date_range(start_date, end_date) ==
    ~(end_date # NoDate /\ end_date < start_date)

\* Primary key of a new row
NextId(rows) == IF DOMAIN rows = {} THEN 1 ELSE Max(DOMAIN rows) + 1

Put(f, k, v) == [x \in DOMAIN f \cup {k} |-> IF x = k THEN v ELSE f[x]]

Drop(f, k) == [x \in DOMAIN f \ {k} |-> f[x]]

\* last records what the caller sees of a write: its outcome, the currency
\* and date the conversion ran on and what the resolver returned for them
CreateExpense(trip_id, category_id, amount, currency_code, start_date, end_date) ==
    LET Done(status, currency, rate_date, resolved, id) ==
            last' = [op |-> "create_expense", status |-> status, trip_id |-> trip_id,
                     currency |-> currency, rate_date |-> rate_date,
                     resolved |-> resolved, expense_id |-> id]
    IN  /\ NextId(expenses) <= MaxExpenses
        /\ IF ~validate_date_range(start_date, end_date)
           THEN Done("validation_error", "", NoDate, None, 0) /\ UNCHANGED expenses
           ELSE IF trip_id \notin DOMAIN trips
           THEN Done("not_found", "", NoDate, None, 0) /\ UNCHANGED expenses
           ELSE IF ~CategoryOfTrip(category_id, trip_id)
           THEN Done("bad_request", "", NoDate, None, 0) /\ UNCHANGED expenses
           ELSE LET trip == trips[trip_id]
                    c == conversion(exchange_rates, today, amount, currency_code,
                                    trip.currency_code, start_date)
                    id == NextId(expenses)
                IN  IF c.status # "ok"
                    THEN Done(c.status, currency_code, start_date, c.resolved, 0) /\ UNCHANGED expenses
                    ELSE /\ expenses' = Put(expenses, id,
                              Expense(trip_id, category_id, amount, currency_code,
                                      c.exchange_rate, c.amount_in_trip_currency,
                                      start_date, end_date))
                         /\ Done("created", currency_code, start_date, c.resolved, id)
        /\ UNCHANGED <<today, exchange_rates, trips, sessions, scheduler>>

\* An ExpenseUpdate body: the field names sent (exclude_unset) and their values
ConversionFields == {"amount", "currency_code", "start_date"}

\* Variant: the stored conversion left as it was when the amount, the
\* currency or the start date is rewritten
apply_update_stale(expense, upd, c) ==
    [f \in DOMAIN expense |-> IF f \in upd.fields THEN upd[f] ELSE expense[f]]

\* Variant: the conversion columns written on every update, empty when no
\* conversion ran
apply_update_clears(expense, upd, c) ==
    [f \in DOMAIN expense |->
        IF f \in upd.fields THEN upd[f]
        ELSE IF f \in {"exchange_rate", "amount_in_trip_currency"}
             THEN IF upd.fields \cap ConversionFields # {} THEN c[f] ELSE None
        ELSE expense[f]]

\* "for field, value in update_data.items(): setattr(expense, field, value)"
apply_update(expense, upd, c) ==
    [f \in DOMAIN expense |->
        IF f \in upd.fields THEN upd[f]
        ELSE IF f \in {"exchange_rate", "amount_in_trip_currency"}
                /\ upd.fields \cap ConversionFields # {}
             THEN c[f]
        ELSE expense[f]]

UpdateExpense(expense_id, trip_id, upd) ==
    LET Done(status, currency, rate_date, resolved) ==
            last' = [op |-> "update_expense", status |-> status,
                     expense_id |-> expense_id, trip_id |-> trip_id,
                     upd |-> upd, currency |-> currency,
                     rate_date |-> rate_date, resolved |-> resolved]
    IN  /\ IF ~(expense_id \in DOMAIN expenses /\ expenses[expense_id].trip_id = trip_id)
           THEN Done("not_found", "", NoDate, None) /\ UNCHANGED expenses
           ELSE IF "category_id" \in upd.fields /\ ~CategoryOfTrip(upd.category_id, trip_id)
           THEN Done("bad_request", "", NoDate, None) /\ UNCHANGED expenses
           ELSE LET expense == expenses[expense_id]
                    trip == trips[trip_id]
                    needs_conversion_update == upd.fields \cap ConversionFields # {}
                    amount == IF "amount" \in upd.fields THEN upd.amount ELSE expense.amount
                    currency == IF "currency_code" \in upd.fields THEN upd.currency_code
                                ELSE expense.currency_code
                    rate_date == IF "start_date" \in upd.fields THEN upd.start_date
                                 ELSE expense.start_date
                    c == IF needs_conversion_update
                         THEN conversion(exchange_rates, today, amount, currency,
                                         trip.currency_code, rate_date)
                         ELSE [status |-> "ok", resolved |-> None]
                IN  IF c.status # "ok"
                    THEN Done(c.status, currency, rate_date, c.resolved)
                         /\ UNCHANGED expenses
                    ELSE /\ expenses' = [expenses EXCEPT
                                            ![expense_id] = apply_update(expense, upd, c)]
                         /\ Done("updated", currency, rate_date, c.resolved)
        /\ UNCHANGED <<today, exchange_rates, trips, sessions, scheduler>>

DeleteExpense(expense_id, trip_id) ==
    /\ IF expense_id \in DOMAIN expenses /\ expenses[expense_id].trip_id = trip_id
       THEN /\ expenses' = Drop(expenses, expense_id)
            /\ last' = [op |-> "delete_expense", status |-> "deleted",
                        expense_id |-> expense_id]
       ELSE /\ last' = [op |-> "delete_expense", status |-> "not_found",
                        expense_id |-> expense_id]
            /\ UNCHANGED expenses
    /\ UNCHANGED <<today, exchange_rates, trips, sessions, scheduler>>

----------------------------------------------------------------------------
(* get_daily_budget_statistics *)

\* Sum of the values of a function
RECURSIVE SumFn(_)
SumFn(f) ==
    IF DOMAIN f = {} THEN Zero
    ELSE LET x == CHOOSE x \in DOMAIN f : TRUE
         IN  RAdd(f[x], SumFn([y \in DOMAIN f \ {x} |-> f[y]]))

\* "expense.end_date is None or expense.start_date == expense.end_date"
IsSingleDay(e) == e.end_date = NoDate \/ e.start_date = e.end_date

\* Variant: the whole amount counted on every day of the span
daily_amount_unsplit(e) == e.amount_in_trip_currency

\* The share of one expense of expenses_today
daily_amount(e) ==
    IF IsSingleDay(e) THEN e.amount_in_trip_currency
    ELSE RDivInt(e.amount_in_trip_currency, (e.end_date - e.start_date) + 1)

\* The filter of the expenses_today query
TouchesDate(e, trip_id, target_date) ==
    /\ e.trip_id = trip_id
    /\ \/ (e.end_date = NoDate /\ e.start_date = target_date)
       \/ (e.end_date # NoDate /\ e.start_date <= target_date /\ e.end_date >= target_date)

\* Variant: the days of the expense counted from its own start date, the days
\* before the trip's start included
past_amount_from_start(e, trip, target_date) ==
    IF IsSingleDay(e)
    THEN IF e.start_date < target_date THEN e.amount_in_trip_currency ELSE Zero
    ELSE LET days_span == (e.end_date - e.start_date) + 1
             share == RDivInt(e.amount_in_trip_currency, days_span)
             expense_start == e.start_date
             last_day_to_count == IF e.end_date < target_date - 1 THEN e.end_date
                                  ELSE target_date - 1
         IN  IF expense_start < target_date /\ last_day_to_count >= expense_start
             THEN RMul(share, Rat((last_day_to_count - expense_start) + 1))
             ELSE Zero

\* What one expense of all_expenses adds to cumulative_spent_past
past_amount(e, trip, target_date) ==
    IF IsSingleDay(e)
    THEN IF e.start_date < target_date THEN e.amount_in_trip_currency ELSE Zero
    ELSE LET days_span == (e.end_date - e.start_date) + 1
             share == RDivInt(e.amount_in_trip_currency, days_span)
             expense_start == IF e.start_date > trip.start_date THEN e.start_date
                              ELSE trip.start_date
             last_day_to_count == IF e.end_date < target_date - 1 THEN e.end_date
                                  ELSE target_date - 1
         IN  IF expense_start < target_date /\ last_day_to_count >= expense_start
             THEN RMul(share, Rat((last_day_to_count - expense_start) + 1))
             ELSE Zero

\* min(percentage_used, 999.9)
PercentCap == <<9999, 10>>

\* Variant: the percentage returned without its ceiling
percentage_used_today_uncapped(total_spent_today, daily_budget) ==
    IF RLess(Zero, daily_budget)
    THEN RMul(RMul(total_spent_today, Inv(daily_budget)), Rat(100))
    ELSE Zero

\* percentage_used, then min(percentage_used, 999.9)
percentage_used_today(total_spent_today, daily_budget) ==
    LET percentage_used ==
            IF RLess(Zero, daily_budget)
            THEN RMul(RMul(total_spent_today, Inv(daily_budget)), Rat(100))
            ELSE Zero
    IN  IF RLess(PercentCap, percentage_used) THEN PercentCap ELSE percentage_used

\* "total_spent_today > daily_budget if daily_budget > 0 else False"
is_over_budget(total_spent_today, daily_budget) ==
    IF RLess(Zero, daily_budget) THEN RLess(daily_budget, total_spent_today) ELSE FALSE

\* The budget a category is seeded with; percentage is budget_percentage
category_daily_budget(daily_budget, percentage) ==
    IF RLess(Zero, daily_budget) /\ percentage # 0
    THEN RMul(daily_budget, Norm(<<percentage, 100>>))
    ELSE Zero

\* Variant: every expense of the day booked on every category
category_spent_all(EE, expenses_today, category_id) ==
    SumFn([i \in expenses_today |-> daily_amount(EE[i])])

\* What the loop adds to the total_spent of one category
category_spent(EE, expenses_today, category_id) ==
    LET own == {i \in expenses_today : EE[i].category_id = category_id}
    IN  SumFn([i \in own |-> daily_amount(EE[i])])

\* Variant: remaining_budget left at the value it was seeded with
category_entry_seeded(category_id, budget, spent) ==
    [category_id |-> category_id, total_spent |-> spent,
     category_daily_budget |-> budget, remaining_budget |-> budget]

\* The entry of one category after the loop
category_entry(category_id, budget, spent) ==
    [category_id |-> category_id, total_spent |-> spent,
     category_daily_budget |-> budget, remaining_budget |-> RSub(budget, spent)]

\* Variant: only the categories that own an expense of the day are listed
by_category_today_spent_only(EE, expenses_today, cats, daily_budget) ==
    LET all == [k \in 1..Len(cats) |->
                   category_entry(cats[k],
                                  category_daily_budget(daily_budget, DEFAULT_CATEGORIES[k]),
                                  category_spent(EE, expenses_today, cats[k]))]
    IN  SelectSeq(all, LAMBDA entry :
                         \E i \in expenses_today : EE[i].category_id = entry.category_id)

\* list(category_spending.values()): one entry per category of the trip, in
\* display order
by_category_today(EE, expenses_today, cats, daily_budget) ==
    [k \in 1..Len(cats) |->
        category_entry(cats[k],
                       category_daily_budget(daily_budget, DEFAULT_CATEGORIES[k]),
                       category_spent(EE, expenses_today, cats[k]))]

\* Variant: zeros where the cumulative figures do not apply
cumulative_past_zeros(EE, trip_id, trip, daily_budget, target_date) ==
    LET all_expenses == {i \in DOMAIN EE :
                            EE[i].trip_id = trip_id /\ EE[i].start_date < target_date}
        budget == RMul(daily_budget, Rat(target_date - trip.start_date))
        spent == SumFn([i \in all_expenses |-> past_amount(EE[i], trip, target_date)])
    IN  IF target_date > trip.start_date /\ RLess(Zero, daily_budget)
        THEN [budget |-> budget, spent |-> spent, savings |-> RSub(budget, spent)]
        ELSE [budget |-> Zero, spent |-> Zero, savings |-> Zero]

\* The three cumulative figures of the days before target_date
cumulative_past(EE, trip_id, trip, daily_budget, target_date) ==
    LET all_expenses == {i \in DOMAIN EE :
                            EE[i].trip_id = trip_id /\ EE[i].start_date < target_date}
        cumulative_budget_past == RMul(daily_budget, Rat(target_date - trip.start_date))
        cumulative_spent_past ==
            SumFn([i \in all_expenses |-> past_amount(EE[i], trip, target_date)])
    IN  IF target_date > trip.start_date /\ RLess(Zero, daily_budget)
        THEN [budget |-> cumulative_budget_past, spent |-> cumulative_spent_past,
              savings |-> RSub(cumulative_budget_past, cumulative_spent_past)]
        ELSE [budget |-> None, spent |-> None, savings |-> None]

\* The division by days_span of the cumulative loop is done for every
\* multi-day row of all_expenses, before the row's days are looked at: a row
\* whose end date is the day before its start date raises ZeroDivisionError
ZeroSpan(EE, trip_id, target_date) ==
    {i \in DOMAIN EE :
        /\ EE[i].trip_id = trip_id /\ EE[i].start_date < target_date
        /\ ~IsSingleDay(EE[i]) /\ (EE[i].end_date - EE[i].start_date) + 1 = 0}

\* Variant: the first trip of the table when none has the id
first_trip_unfiltered(TT, trip_id) ==
    IF trip_id \in DOMAIN TT THEN <<TT[trip_id]>>
    ELSE IF TT # <<>> THEN <<TT[1]>> ELSE <<>>

\* db.query(Trip).filter(Trip.id == trip_id).first(): the trip, or nothing
first_trip(TT, trip_id) ==
    IF trip_id \in DOMAIN TT THEN <<TT[trip_id]>> ELSE <<>>

get_daily_budget_statistics(TT, EE, T, trip_id, date_arg) ==
    LET target_date == IF date_arg = NoDate THEN T ELSE date_arg
    IN  IF first_trip(TT, trip_id) = <<>> THEN [status |-> "not_found"]
        ELSE
        LET trip == first_trip(TT, trip_id)[1]
            daily_budget == IF Truthy(trip.daily_budget) THEN trip.daily_budget ELSE Zero
            expenses_today == {i \in DOMAIN EE : TouchesDate(EE[i], trip_id, target_date)}
            total_spent_today == SumFn([i \in expenses_today |-> daily_amount(EE[i])])
            expense_count ==
                Cardinality({i \in expenses_today : EE[i].start_date = target_date})
            has_past == target_date > trip.start_date /\ RLess(Zero, daily_budget)
            cumulative == cumulative_past(EE, trip_id, trip, daily_budget, target_date)
        IN  IF has_past /\ ZeroSpan(EE, trip_id, target_date) # {}
            THEN [status |-> "zero_division"]
            ELSE
            [status |-> "ok",
             date |-> target_date,
             daily_budget |-> IF RLess(Zero, daily_budget) THEN daily_budget ELSE None,
             total_spent_today |-> total_spent_today,
             remaining_today |-> RSub(daily_budget, total_spent_today),
             percentage_used_today |->
                 percentage_used_today(total_spent_today, daily_budget),
             expense_count_today |-> expense_count,
             by_category_today |->
                 by_category_today(EE, expenses_today, CategoryIds(trip_id), daily_budget),
             is_over_budget |-> is_over_budget(total_spent_today, daily_budget),
             days_into_trip |-> (target_date - trip.start_date) + 1,
             total_days |-> (trip.end_date - trip.start_date) + 1,
             cumulative_budget_past |-> cumulative.budget,
             cumulative_spent_past |-> cumulative.spent,
             cumulative_savings_past |-> cumulative.savings]

GetDailyBudgetStatistics(trip_id, date_arg) ==
    /\ last' = [op |-> "get_daily_budget_statistics", trip_id |-> trip_id,
                date |-> date_arg,
                result |-> get_daily_budget_statistics(trips, expenses, today,
                                                       trip_id, date_arg)]
    /\ UNCHANGED <<today, exchange_rates, trips, expenses, sessions, scheduler>>

----------------------------------------------------------------------------
(* The whole backend on one trip *)

\* Amounts sent on create and on update
CreateAmounts == {Rat(6)}

UpdateAmounts == {Rat(12)}

\* Dates sent with expenses: the first and the last day
ExpenseDates == {0, MaxDay}

\* End dates sent with expenses: none, or the first day
EndDates == {NoDate, 0}

\* The category sent on update belongs to another trip
UpdateCategories == {CategoryIds(2)[1]}

TripArgs == {1, 2}

\* create_expense requests <<trip, category, amount, currency, start, end>>:
\* every currency and date on the first trip and a category of its own, one
\* request for a trip that does not exist and one with a category of another trip
CreateArgs ==
    ({1} \X {CategoryIds(1)[1]} \X CreateAmounts \X Currencies \X ExpenseDates \X EndDates)
    \cup ({2} \X {CategoryIds(1)[1]} \X CreateAmounts \X {"USD"} \X {0} \X {NoDate})
    \cup ({1} \X {CategoryIds(2)[1]} \X CreateAmounts \X {"USD"} \X {0} \X {NoDate})

UpdateFieldSets ==
    {{"amount"}, {"currency_code"}, {"start_date"}, {"end_date"}, {"category_id"},
     {"currency_code", "end_date"}, {"amount", "end_date"},
     {"start_date", "end_date"}}

\* ExpenseUpdate bodies; a field that is not sent carries a fixed filler
Updates ==
    {u \in [fields : UpdateFieldSets, amount : UpdateAmounts, currency_code : Currencies,
            start_date : ExpenseDates, end_date : EndDates,
            category_id : UpdateCategories] :
        /\ "currency_code" \notin u.fields => u.currency_code = "USD"
        /\ "start_date" \notin u.fields => u.start_date = 0
        /\ "end_date" \notin u.fields => u.end_date = NoDate}

Next ==
    \/ trips = <<>> /\ \E c \in Currencies : CreateTrip(0, MaxDay, c, NoBudget, NoBudget)
    \/ \E a \in CreateArgs : CreateExpense(a[1], a[2], a[3], a[4], a[5], a[6])
    \/ \E id \in 1..MaxExpenses, u \in Updates : UpdateExpense(id, 1, u)
    \/ \E id \in 1..MaxExpenses, t \in TripArgs : DeleteExpense(id, t)
    \/ \E p \in DistinctPairs, r \in Rates : SaveRate(p[1], p[2], r, NoDate)
    \/ UpdateAllRates
    \/ \E p \in DistinctPairs : GetRate(p[1], p[2], NoDate)
    \/ \E t \in TripArgs, d \in ExpenseDates : GetDailyBudgetStatistics(t, d)

Spec == Init /\ [][Next]_vars

----------------------------------------------------------------------------
(* get_daily_budget_statistics on drawn tables *)

StatsExpenses == 2

\* Converted amounts of the drawn expenses: divisible by every span length
StatsAmounts == {Rat(12)}

\* Rows of the expenses table: expenses of the first trip with any start and
\* end date, the end date before the start date included (update_expense can
\* store it), single-day expenses of the first trip in a second category, and
\* an expense of the second trip that spans every day
StatsRows ==
    {Expense(1, CategoryIds(1)[1], a, "USD", One, a, s, e) :
        a \in StatsAmounts, s \in Dates, e \in Dates \cup {NoDate}}
    \cup {Expense(1, CategoryIds(1)[2], a, "USD", One, a, s, NoDate) :
            a \in StatsAmounts, s \in Dates}
    \cup {Expense(2, CategoryIds(2)[1], a, "USD", One, a, 0, MaxDay) : a \in StatsAmounts}

StatsTables == UNION {[1..n -> StatsRows] : n \in 0..StatsExpenses}

\* Two trips: one with a daily budget that starts on the first or the second
\* day, one without a budget
StatsBudgets == {Rat(1), Rat(10)}

StatsTrips ==
    {<<Trip(s, MaxDay, "USD", NoBudget, b), Trip(0, MaxDay, "USD", NoBudget, NoBudget)>> :
        s \in {0, 1}, b \in StatsBudgets}

InitStats ==
    /\ today = 0
    /\ exchange_rates = {}
    /\ trips \in StatsTrips
    /\ expenses \in StatsTables
    /\ last = [op |-> "init"]
    /\ sessions = NoSessions
    /\ scheduler = StoppedScheduler

\* Calls: the first trip on every date, the second on the default date
StatsCalls == ({1} \X Dates) \cup {<<2, NoDate>>}

\* One call on the drawn tables
NextStats ==
    /\ last.op = "init"
    /\ \E c \in StatsCalls : GetDailyBudgetStatistics(c[1], c[2])

SpecStats == InitStats /\ [][NextStats]_vars

----------------------------------------------------------------------------
(* Properties of the daily statistics *)

WellFormed(e) == e.end_date = NoDate \/ e.end_date >= e.start_date

\* What one expense should add to total_spent_today on day d
C2_Share(e, d) ==
    IF e.end_date # NoDate /\ e.end_date > e.start_date
    THEN IF e.start_date <= d /\ d <= e.end_date
         THEN RDivInt(e.amount_in_trip_currency, e.end_date - e.start_date + 1)
         ELSE Zero
    ELSE IF d = e.start_date THEN e.amount_in_trip_currency ELSE Zero

StatsDay == IF last.date = NoDate THEN today ELSE last.date

OfTrip(t) == {i \in DOMAIN expenses : expenses[i].trip_id = t}

\* C2: for a trip whose expenses all have no end date or an end date not
\* before the start date, total_spent_today is the sum over the trip's
\* expenses of A/n for a multi-day expense whose span of n days holds the
\* target date, of the full amount for a single-day expense that starts on the
\* target date and of nothing otherwise; expense_count_today is the number of
\* the trip's expenses that start on the target date.
C2_EvenSplit ==
    (/\ last.op = "get_daily_budget_statistics"
     /\ last.result.status = "ok"
     /\ \A i \in OfTrip(last.trip_id) : WellFormed(expenses[i]))
    => /\ last.result.total_spent_today =
            SumFn([i \in OfTrip(last.trip_id) |-> C2_Share(expenses[i], StatsDay)])
       /\ last.result.expense_count_today =
            Cardinality({i \in OfTrip(last.trip_id) :
                            expenses[i].start_date = StatsDay})

\* Statistics of the second day of a three-day expense, with a single-day
\* expense of the same trip on another day
C2_Witness ==
    /\ last.op = "get_daily_budget_statistics"
    /\ last.result.status = "ok"
    /\ \A i \in OfTrip(last.trip_id) : WellFormed(expenses[i])
    /\ \E i, j \in OfTrip(last.trip_id) :
         /\ expenses[i].end_date = expenses[i].start_date + 2
         /\ StatsDay = expenses[i].start_date + 1
         /\ expenses[j].end_date = NoDate /\ expenses[j].start_date # StatsDay
    /\ last.result.total_spent_today = Rat(4)
    /\ last.result.expense_count_today = 0

----------------------------------------------------------------------------
(* Properties of the expense writes *)

\* C3: every stored expense with an end date has it on or after its start date.
C3_EndNotBeforeStart ==
    \A i \in DOMAIN expenses :
        expenses[i].end_date # NoDate => expenses[i].end_date >= expenses[i].start_date

IsWrite(l) == l.op \in {"create_expense", "update_expense"}

Succeeded(l) == l.status \in {"created", "updated"}

\* The write in l ran the conversion for a currency other than the trip's
\* and the resolver had no rate for it
ResolverMissed(l) ==
    /\ IsWrite(l)
    /\ l.currency # ""
    /\ l.trip_id \in DOMAIN trips
    /\ l.currency # trips[l.trip_id].currency_code
    /\ l.resolved = None
    /\ C1_Expected(l.currency, trips[l.trip_id].currency_code, l.rate_date) = None

C8_Step ==
    ResolverMissed(last') => (~Succeeded(last') /\ expenses' = expenses)

\* C8: a create_expense or update_expense in a currency other than the
\* trip's for which the resolver finds no rate ends in an error and leaves the
\* expenses table as it was: no row inserted, no field of the expense changed.
C8_MissRejects == [][C8_Step]_vars

\* An update that sent a new currency together with an end date was refused
\* for want of a rate, the expense still as it was
C8_Witness ==
    /\ ResolverMissed(last)
    /\ last.op = "update_expense"
    /\ last.upd.fields = {"currency_code", "end_date"}
    /\ ~Succeeded(last)
    /\ last.expense_id \in DOMAIN expenses
    /\ expenses[last.expense_id].end_date # last.upd.end_date
    /\ expenses[last.expense_id].currency_code # last.upd.currency_code

\* The conversion an expense should carry for amount a, currency c, date d
C9_Rate(t, c, d) ==
    IF c = trips[t].currency_code THEN One
    ELSE C1_Expected(c, trips[t].currency_code, d)

C9_Holds(e, a, c, d) ==
    /\ e.amount = a /\ e.currency_code = c /\ e.start_date = d
    /\ e.exchange_rate = C9_Rate(e.trip_id, c, d)
    /\ e.amount_in_trip_currency = RMul(a, e.exchange_rate)

C9_Step ==
    /\ (last'.op = "create_expense" /\ last'.status = "created")
         => LET e == expenses'[last'.expense_id]
            IN  /\ e.exchange_rate = C9_Rate(e.trip_id, e.currency_code, e.start_date)
                /\ e.amount_in_trip_currency = RMul(e.amount, e.exchange_rate)
    /\ (/\ last'.op = "update_expense" /\ last'.status = "updated"
        /\ last'.upd.fields \cap ConversionFields # {})
         => LET u == last'.upd
                old == expenses[last'.expense_id]
                Eff(f) == IF f \in u.fields THEN u[f] ELSE old[f]
            IN  C9_Holds(expenses'[last'.expense_id],
                         Eff("amount"), Eff("currency_code"), Eff("start_date"))

Snapshot(e) == <<e.exchange_rate, e.amount_in_trip_currency>>

C10_Step ==
    \A i \in DOMAIN expenses \cap DOMAIN expenses' :
        Snapshot(expenses'[i]) # Snapshot(expenses[i])
            => /\ last'.op = "update_expense"
               /\ last'.expense_id = i
               /\ last'.upd.fields \cap ConversionFields # {}

\* C10: exchange_rate and amount_in_trip_currency of an expense that exists
\* before and after a step change only when the step is an update_expense of
\* that expense that sends amount, currency_code or start_date.
C10_SnapshotFrame == [][C10_Step]_vars

\* An update that sent only an end date went through, with rates stored,
\* on an expense whose amount had been rewritten before
C10_Witness ==
    /\ last.op = "update_expense" /\ last.status = "updated"
    /\ last.upd.fields = {"end_date"}
    /\ exchange_rates # {}
    /\ expenses[last.expense_id].end_date = last.upd.end_date
    /\ expenses[last.expense_id].amount_in_trip_currency \in UpdateAmounts

----------------------------------------------------------------------------
(* The scheduled refresh in a failing environment, on drawn tables *)

RefreshRows == 1

\* Stores a run can find: rows of yesterday and of today
RefreshKeys == DistinctPairs \X {0, 1}

RefreshStores ==
    UNION {{{Row(k[1][1], k[1][2], rate[k], k[2]) : k \in K} : rate \in [K -> Rates]} :
             K \in {K \in SUBSET RefreshKeys : Cardinality(K) <= RefreshRows}}

\* Trips tables: up to MaxTrips trips, each in one of the currencies
RefreshTrips ==
    UNION {[1..n -> {Trip(0, MaxDay, c, NoBudget, NoBudget) : c \in Currencies}] :
             n \in 0..MaxTrips}

InitRefresh ==
    /\ today = 1
    /\ exchange_rates \in RefreshStores
    /\ trips \in RefreshTrips
    /\ expenses = <<>>
    /\ last = [op |-> "init"]
    /\ sessions = NoSessions
    /\ scheduler = StoppedScheduler

\* What one base currency meets in a run: no rates from the provider, or rates
\* and a save that ends in one of the three ways
BaseEnvs(b) ==
    {[rates |-> <<>>, fault |-> "none"]}
    \cup {[rates |-> m, fault |-> f] : m \in ProviderAnswers(b) \ {<<>>}, f \in SaveFaults}

RefreshEnvs(S) ==
    {env \in [S -> UNION {BaseEnvs(b) : b \in S}] : \A b \in S : env[b] \in BaseEnvs(b)}

\* The first run on the drawn tables
FirstRun ==
    /\ last.op = "init"
    /\ LET S == get_unique_trip_currencies(trips)
       IN  \/ UpdateExchangeRates(<<>>, TRUE, [b \in S |-> <<>>], NoFaults(S))
           \/ \E bases \in Orders(S), env \in RefreshEnvs(S) :
                 UpdateExchangeRates(bases, FALSE, [b \in S |-> env[b].rates],
                                     [b \in S |-> env[b].fault])

\* The scheduler fires again on the same day and the provider answers as before
RepeatRun ==
    /\ last.op = "update_all_rates" /\ ~last.trips_fault
    /\ LET S == get_unique_trip_currencies(trips)
       IN  \E bases \in Orders(S), faults \in [S -> SaveFaults] :
              /\ \A b \in S : DOMAIN last.answers[b] = {} => faults[b] = "none"
              /\ UpdateExchangeRates(bases, FALSE, last.answers, faults)

NextRefresh == FirstRun \/ RepeatRun

SpecRefresh == InitRefresh /\ [][NextRefresh]_vars

----------------------------------------------------------------------------
(* Properties of the refresh job *)

IsRun(l) == l.op = "update_all_rates"

TripCurrencies == {trips[i].currency_code : i \in DOMAIN trips}

CallsFor(l, c) == Cardinality({i \in DOMAIN l.calls : l.calls[i] = c})

C11_CallsOnce ==
    (IsRun(last) /\ ~last.trips_fault) =>
        \A c \in Currencies : CallsFor(last, c) = IF c \in TripCurrencies THEN 1 ELSE 0

C11_NoTripsStep ==
    (IsRun(last') /\ trips = <<>>) =>
        (last'.calls = <<>> /\ exchange_rates' = exchange_rates)

\* C11: a run of update_all_rates that read the trips calls the provider
\* exactly once for every distinct trip currency, failed answer or not, and
\* for no other currency; with no trips it calls nothing and leaves the store
\* as it was.
C11_OncePerCurrency == [](C11_CallsOnce) /\ [][C11_NoTripsStep]_vars

\* Two trips in one currency, the provider failing: one call
C11_Witness ==
    /\ IsRun(last) /\ ~last.trips_fault
    /\ Len(trips) = 2 /\ Cardinality(TripCurrencies) = 1
    /\ \A b \in TripCurrencies : DOMAIN last.answers[b] = {}
    /\ Len(last.calls) = 1
    /\ last.error_count = 1

\* The rows of today hold what the provider answered for base b
Persisted(l, b) ==
    \A t \in DOMAIN l.answers[b] \ {b} :
        HasRow(b, t, l.date) /\ RowRate(b, t, l.date) = l.answers[b][t]

\* Base b got rates from the provider and its own save met no failure
SoundBase(l, b) == DOMAIN l.answers[b] # {} /\ l.faults[b] = "none"

\* C12: in a run that read the trips, whatever fails for the other base
\* currencies, every distinct trip currency is fetched, and the rates of every
\* base that got an answer and whose own save did not fail are in the store;
\* the scheduled task never ends in an exception.
C12_FailureIsolated ==
    IsRun(last) =>
        /\ last.outcome # "raised"
        /\ ~last.trips_fault =>
              \A b \in TripCurrencies :
                  /\ CallsFor(last, b) = 1
                  /\ SoundBase(last, b) => Persisted(last, b)

NoSaveFault(l) == \A b \in DOMAIN l.faults : l.faults[b] = "none"

C13_Step ==
    IsRun(last') =>
        /\ (~last'.trips_fault /\ NoSaveFault(last')) =>
              \A b \in TripCurrencies :
                  \A t \in DOMAIN last'.answers[b] \ {b} :
                      \E row \in exchange_rates' :
                          /\ row.from_currency = b /\ row.to_currency = t
                          /\ row.date = today /\ row.rate = last'.answers[b][t]
        /\ \A row \in exchange_rates' \ exchange_rates :
              row.from_currency # row.to_currency /\ row.date = today
        /\ \A row \in exchange_rates : row.date # today => row \in exchange_rates'

C14_Step ==
    (/\ IsRun(last) /\ ~last.trips_fault /\ NoSaveFault(last)
     /\ IsRun(last') /\ ~last'.trips_fault
     /\ last'.date = last.date /\ last'.answers = last.answers)
    => exchange_rates' = exchange_rates

\* C14: a run that follows, on the same day and with the same provider
\* answers, a run in which no save failed leaves the store with the same
\* rows: the same keys and the same rates, none added.
C14_SameDayRepeat == [][C14_Step]_vars

\* A repeated run that saved the same rates again over the rows of the
\* first run
C14_Witness ==
    /\ IsRun(last) /\ last.repeat /\ ~last.trips_fault /\ NoSaveFault(last)
    /\ last.persisted = TripCurrencies
    /\ Cardinality(TripCurrencies) = 2
    /\ \A b \in TripCurrencies : Persisted(last, b)
    /\ Cardinality(exchange_rates) = 2


----------------------------------------------------------------------------
\* Properties of the statistics of one day

IsStats == last.op = "get_daily_budget_statistics" /\ last.result.status = "ok"

\* daily_budget of the trip the call was about, 0 when unset
StatsBudget ==
    LET b == trips[last.trip_id].daily_budget IN IF Truthy(b) THEN b ELSE Zero

HasPast == StatsDay > trips[last.trip_id].start_date /\ RLess(Zero, StatsBudget)

\* The expenses of the trip that start before the day asked about
PastExpenses == {i \in OfTrip(last.trip_id) : expenses[i].start_date < StatsDay}

\* C15: in every returned result the three cumulative fields are all null
\* when the day asked about is not after the trip's start or the trip has no
\* positive daily budget; otherwise none is null, the budget of the past is
\* daily_budget times the days between the trip's start and the day, the
\* savings are that budget minus the spending of the past, and the spending
\* is 0 (not null) when no expense starts before the day.
C15_CumulativeFields ==
    IsStats =>
        LET r == last.result
            days == StatsDay - trips[last.trip_id].start_date
        IN  IF HasPast
            THEN /\ r.cumulative_budget_past # None
                 /\ r.cumulative_spent_past # None
                 /\ r.cumulative_savings_past # None
                 /\ r.cumulative_budget_past = RMul(StatsBudget, Rat(days))
                 /\ r.cumulative_savings_past =
                        RSub(r.cumulative_budget_past, r.cumulative_spent_past)
                 /\ (PastExpenses = {} => r.cumulative_spent_past = Zero)
            ELSE /\ r.cumulative_budget_past = None
                 /\ r.cumulative_spent_past = None
                 /\ r.cumulative_savings_past = None

\* A result of the second day of a budgeted trip whose only expense is of
\* that day: nothing spent in the past, the whole past budget saved
C15_Witness ==
    /\ IsStats /\ HasPast
    /\ OfTrip(last.trip_id) # {} /\ PastExpenses = {}
    /\ last.result.cumulative_spent_past = Zero
    /\ last.result.cumulative_savings_past = last.result.cumulative_budget_past
    /\ RLess(Zero, last.result.cumulative_budget_past)

\* days_in_past of a multi-day expense e of the trip the call was about
C16_DaysInPast(e) ==
    LET first == IF e.start_date > trips[last.trip_id].start_date THEN e.start_date
                 ELSE trips[last.trip_id].start_date
        final == IF e.end_date < StatsDay - 1 THEN e.end_date ELSE StatsDay - 1
    IN  (final - first) + 1

\* What an expense that starts before the day adds to the spending of the past
C16_Contribution(e) ==
    IF IsSingleDay(e) THEN e.amount_in_trip_currency
    ELSE IF C16_DaysInPast(e) >= 1
         THEN RMul(RDivInt(e.amount_in_trip_currency, (e.end_date - e.start_date) + 1),
                   Rat(C16_DaysInPast(e)))
         ELSE Zero

\* C16: in every returned result with cumulative figures, cumulative_spent_past
\* is the sum over the expenses that start before the day of: the whole amount
\* of a single-day expense, and for a multi-day expense its daily share times
\* days_in_past = (min(end_date, day - 1) - max(start_date, trip.start_date)) + 1
\* when that is at least 1, nothing otherwise.
C16_PastDays ==
    (IsStats /\ HasPast) =>
        last.result.cumulative_spent_past =
            SumFn([i \in PastExpenses |-> C16_Contribution(expenses[i])])

\* A multi-day expense that starts before the trip and ends on the day asked
\* about: only its days from the trip's start to the day before are counted
C16_Witness ==
    /\ IsStats /\ HasPast
    /\ Cardinality(PastExpenses) = 1
    /\ \E i \in PastExpenses :
          /\ ~IsSingleDay(expenses[i])
          /\ expenses[i].start_date < trips[last.trip_id].start_date
          /\ expenses[i].end_date >= StatsDay
          /\ C16_DaysInPast(expenses[i]) >= 1
          /\ C16_DaysInPast(expenses[i]) < (expenses[i].end_date - expenses[i].start_date) + 1
          /\ last.result.cumulative_spent_past = C16_Contribution(expenses[i])
          /\ RLess(Zero, last.result.cumulative_spent_past)

\* The expenses counted toward the day asked about
TodayExpenses ==
    {i \in DOMAIN expenses : TouchesDate(expenses[i], last.trip_id, StatsDay)}

\* daily_budget x budget_percentage / 100 of the k-th category of the trip
C17_CategoryBudget(k) ==
    IF RLess(Zero, StatsBudget)
    THEN RDivInt(RMul(StatsBudget, Rat(DEFAULT_CATEGORIES[k])), 100)
    ELSE Zero

SpentCategories == {expenses[i].category_id : i \in TodayExpenses}

\* The categories whose entry of by_category_today shows spending
PositiveEntries ==
    LET by == last.result.by_category_today
    IN  {by[k].category_id : k \in {j \in 1..Len(by) : RLess(Zero, by[j].total_spent)}}

\* The categories that have an entry in by_category_today
ListedCategories ==
    LET by == last.result.by_category_today IN {by[k].category_id : k \in 1..Len(by)}

C19_CategorySpent(c) ==
    LET own == {i \in TodayExpenses : expenses[i].category_id = c}
    IN  SumFn([i \in own |-> C2_Share(expenses[i], StatsDay)])

\* C19: in every returned result remaining_today is the daily budget (0 when
\* unset) minus total_spent_today, and in every category entry
\* remaining_budget is category_daily_budget minus total_spent, total_spent
\* being the sum of the daily amounts of the day's expenses of that category.
C19_Remaining ==
    IsStats =>
        LET r == last.result
            by == r.by_category_today
        IN  /\ r.remaining_today = RSub(StatsBudget, r.total_spent_today)
            /\ \A k \in 1..Len(by) :
                  /\ by[k].total_spent = C19_CategorySpent(by[k].category_id)
                  /\ by[k].remaining_budget =
                         RSub(by[k].category_daily_budget, by[k].total_spent)

\* A day on which a budgeted category was overspent: its remaining budget and
\* the remaining budget of the day are below zero
C19_Witness ==
    /\ IsStats /\ RLess(Zero, StatsBudget)
    /\ RLess(last.result.remaining_today, Zero)
    /\ \E k \in 1..Len(last.result.by_category_today) :
          LET entry == last.result.by_category_today[k]
          IN  /\ RLess(Zero, entry.category_daily_budget)
              /\ RLess(Zero, entry.total_spent)
              /\ RLess(entry.remaining_budget, Zero)
              /\ entry.remaining_budget = RSub(entry.category_daily_budget, entry.total_spent)

\* total_spent_today / daily_budget x 100
C20_Percentage ==
    RMul(RMul(last.result.total_spent_today, Inv(StatsBudget)), Rat(100))

\* C20: in every returned result is_over_budget is true exactly when the trip
\* has a positive daily budget and total_spent_today is above it, and
\* percentage_used_today is 0 without a daily budget and otherwise
\* total_spent_today / daily_budget x 100, or 999.9 when that is larger.
C20_OverBudget ==
    IsStats =>
        LET r == last.result
        IN  /\ r.is_over_budget =
                   (RLess(Zero, StatsBudget) /\ RLess(StatsBudget, r.total_spent_today))
            /\ IF ~RLess(Zero, StatsBudget)
               THEN r.percentage_used_today = Zero
               ELSE IF RLess(<<9999, 10>>, C20_Percentage)
                    THEN r.percentage_used_today = <<9999, 10>>
                    ELSE r.percentage_used_today = C20_Percentage

\* A day whose spending is more than ten times the daily budget: over budget,
\* the percentage held at 999.9
C20_Witness ==
    /\ IsStats /\ RLess(Zero, StatsBudget)
    /\ RLess(<<9999, 10>>, C20_Percentage)
    /\ last.result.is_over_budget
    /\ last.result.percentage_used_today = <<9999, 10>>

----------------------------------------------------------------------------
(* Trips: create_trip and update_trip on one trip *)

BudgetFields == {"total_budget", "daily_budget"}

\* Variant: the budget that was not sent is left as it is
recalculate_budget_keep(trip, upd) ==
    [total_budget |-> IF "total_budget" \in upd.fields THEN upd.total_budget
                      ELSE trip.total_budget,
     daily_budget |-> IF "daily_budget" \in upd.fields THEN upd.daily_budget
                      ELSE trip.daily_budget,
     fields |-> upd.fields \cap BudgetFields]

\* "Recalculate budget if dates or budget values change": the budget entries
\* of update_data after the block; fields are the budget keys it then holds
recalculate_budget(trip, upd) ==
    LET start_date == IF "start_date" \in upd.fields THEN upd.start_date ELSE trip.start_date
        end_date == IF "end_date" \in upd.fields THEN upd.end_date ELSE trip.end_date
        trip_days == (end_date - start_date) + 1
    IN  IF "total_budget" \in upd.fields /\ "daily_budget" \notin upd.fields
        THEN [total_budget |-> upd.total_budget,
              daily_budget |-> RDivInt(upd.total_budget, trip_days),
              fields |-> BudgetFields]
        ELSE IF "daily_budget" \in upd.fields /\ "total_budget" \notin upd.fields
        THEN [total_budget |-> RMul(upd.daily_budget, Rat(trip_days)),
              daily_budget |-> upd.daily_budget,
              fields |-> BudgetFields]
        ELSE [total_budget |-> upd.total_budget, daily_budget |-> upd.daily_budget,
              fields |-> upd.fields \cap BudgetFields]

\* None / trip_days and None * trip_days raise TypeError
BudgetTypeError(upd) ==
    \/ upd.fields \cap BudgetFields = {"total_budget"} /\ upd.total_budget = None
    \/ upd.fields \cap BudgetFields = {"daily_budget"} /\ upd.daily_budget = None

\* TripService.update_trip on a trip that exists
update_trip(trip, upd) ==
    LET start_date == IF "start_date" \in upd.fields THEN upd.start_date ELSE trip.start_date
        end_date == IF "end_date" \in upd.fields THEN upd.end_date ELSE trip.end_date
        budgets == recalculate_budget(trip, upd)
    IN  IF upd.fields \cap {"start_date", "end_date"} # {} /\ start_date > end_date
        THEN [status |-> "bad_request", trip |-> trip]
        ELSE IF BudgetTypeError(upd)
        THEN [status |-> "type_error", trip |-> trip]
        ELSE [status |-> "ok",
              trip |-> [f \in DOMAIN trip |->
                           IF f \in BudgetFields
                           THEN IF f \in budgets.fields THEN budgets[f] ELSE trip[f]
                           ELSE IF f \in upd.fields THEN upd[f] ELSE trip[f]]]

UpdateTrip(trip_id, upd) ==
    /\ IF trip_id \notin DOMAIN trips
       THEN /\ last' = [op |-> "update_trip", status |-> "not_found",
                        trip_id |-> trip_id, upd |-> upd]
            /\ UNCHANGED trips
       ELSE LET r == update_trip(trips[trip_id], upd)
            IN  /\ trips' = [trips EXCEPT ![trip_id] = r.trip]
                /\ last' = [op |-> "update_trip", status |-> r.status,
                            trip_id |-> trip_id, upd |-> upd]
    /\ UNCHANGED <<today, exchange_rates, expenses, sessions, scheduler>>

\* create_trip with the budgets it was given kept in the record of the call
CreateTripWith(s, e, c, tb, db) ==
    /\ Len(trips) < MaxTrips
    /\ IF s > e
       THEN /\ last' = [op |-> "create_trip", ok |-> FALSE, total_budget |-> tb,
                        daily_budget |-> db]
            /\ UNCHANGED trips
       ELSE LET b == create_trip_budgets(s, e, tb, db)
            IN  /\ trips' = Append(trips, Trip(s, e, c, b[1], b[2]))
                /\ last' = [op |-> "create_trip", ok |-> TRUE, trip_id |-> Len(trips) + 1,
                            total_budget |-> tb, daily_budget |-> db]
    /\ UNCHANGED <<today, exchange_rates, expenses, sessions, scheduler>>

\* Optional[Decimal] = Field(None, ge=0): nothing, zero, or a positive amount
TripBudgets == {NoBudget, Zero, Rat(12)}

TripUpdateFieldSets ==
    {{"start_date"}, {"end_date"}, {"start_date", "end_date"}, {"currency_code"},
     {"total_budget"}, {"daily_budget"}, {"total_budget", "daily_budget"},
     {"total_budget", "end_date"}, {"daily_budget", "start_date"}}

\* TripUpdate bodies; a field that is not sent carries a fixed filler
TripUpdates ==
    {u \in [fields : TripUpdateFieldSets, start_date : Dates, end_date : Dates,
            currency_code : Currencies, total_budget : TripBudgets,
            daily_budget : TripBudgets] :
        /\ "start_date" \notin u.fields => u.start_date = 0
        /\ "end_date" \notin u.fields => u.end_date = 0
        /\ "currency_code" \notin u.fields => u.currency_code = "USD"
        /\ "total_budget" \notin u.fields => u.total_budget = NoBudget
        /\ "daily_budget" \notin u.fields => u.daily_budget = NoBudget}

NextTrip ==
    \/ /\ trips = <<>>
       /\ \E s \in Dates, e \in Dates, tb \in TripBudgets, db \in TripBudgets :
             CreateTripWith(s, e, "USD", tb, db)
    \/ \E t \in 1..2, u \in TripUpdates : UpdateTrip(t, u)

SpecTrip == Init /\ [][NextTrip]_vars

\* Calls of which none is given both budgets
OneBudgetUpdates == {u \in TripUpdates : ~(BudgetFields \subseteq u.fields)}

NextBudget ==
    \/ /\ trips = <<>>
       /\ \E s \in Dates, e \in Dates, tb \in TripBudgets, db \in TripBudgets :
             /\ tb = NoBudget \/ db = NoBudget
             /\ CreateTripWith(s, e, "USD", tb, db)
    \/ \E t \in 1..2, u \in OneBudgetUpdates : UpdateTrip(t, u)

SpecBudget == Init /\ [][NextBudget]_vars

----------------------------------------------------------------------------
(* save_rate in two database sessions at once *)

\* The two calls, each with a session of its own
Sessions == {1, 2}

RaceDates == {0, 1}

\* A session before its call
IdleSession ==
    [pc |-> "idle", from |-> "", to |-> "", rate |-> None, date |-> NoDate,
     existing_rate |-> FALSE, outcome |-> ""]

\* What the tables hold when the calls start: nothing, or a rate of day 0
RaceStores == {{}} \cup {{Row("USD", "THB", r, 0)} : r \in Rates}

InitRace ==
    /\ today = 0
    /\ exchange_rates \in RaceStores
    /\ trips = <<>>
    /\ expenses = <<>>
    /\ last = [op |-> "init"]
    /\ sessions = [i \in Sessions |-> IdleSession]
    /\ scheduler = StoppedScheduler

\* save_rate is called in session i
BeginSave(i, f, t, r, d) ==
    /\ sessions[i].pc = "idle"
    /\ sessions' = [sessions EXCEPT ![i] =
                       [IdleSession EXCEPT !.pc = "lookup", !.from = f, !.to = t,
                                           !.rate = r, !.date = d]]
    /\ last' = [op |-> "save_rate_call", session |-> i]
    /\ UNCHANGED <<today, exchange_rates, trips, expenses, scheduler>>

\* "existing_rate = self.db.query(ExchangeRate).filter(...).first()": the
\* session reads the committed rows
Lookup(i) ==
    /\ sessions[i].pc = "lookup"
    /\ sessions' = [sessions EXCEPT ![i] =
                       [@ EXCEPT !.pc = "commit",
                                 !.existing_rate =
                                     Find(exchange_rates, sessions[i].from,
                                          sessions[i].to, sessions[i].date) # {}]]
    /\ last' = [op |-> "save_rate_lookup", session |-> i]
    /\ UNCHANGED <<today, exchange_rates, trips, expenses, scheduler>>

\* "self.db.commit()": the flush sends the UPDATE of the row that was found or
\* the INSERT of the row that was added, and the transaction is committed.
\* The INSERT of a (from, to, date) that a row already has violates
\* unique_exchange_rate and raises IntegrityError out of save_rate.
Commit(i) ==
    LET s == sessions[i]
        conflict == ~s.existing_rate /\ Find(exchange_rates, s.from, s.to, s.date) # {}
    IN  /\ s.pc = "commit"
        /\ exchange_rates' =
               IF conflict THEN exchange_rates
               ELSE UpsertRow(exchange_rates, s.from, s.to, s.rate, s.date)
        /\ sessions' = [sessions EXCEPT ![i] =
                           [@ EXCEPT !.pc = "done",
                                     !.outcome = IF conflict THEN "integrity_error"
                                                 ELSE "saved"]]
        /\ last' = [op |-> "save_rate_commit", session |-> i]
        /\ UNCHANGED <<today, trips, expenses, scheduler>>

NextRace ==
    \/ \E i \in Sessions, r \in Rates, d \in RaceDates : BeginSave(i, "USD", "THB", r, d)
    \/ \E i \in Sessions : Lookup(i)
    \/ \E i \in Sessions : Commit(i)

SpecRace == InitRace /\ [][NextRace]_vars

----------------------------------------------------------------------------
(* The read path on drawn tables *)

InitRead ==
    /\ today = 1
    /\ exchange_rates \in RefreshStores
    /\ trips = <<>>
    /\ expenses = <<>>
    /\ last = [op |-> "init"]
    /\ sessions = NoSessions
    /\ scheduler = StoppedScheduler

ReadDates == {NoDate, 0, 1}

\* Calls of the read path, in any number and order
NextRead ==
    \/ \E f \in Currencies, t \in Currencies, d \in ReadDates : GetRateFromDb(f, t, d)
    \/ \E f \in Currencies, t \in Currencies, d \in ReadDates : GetRate(f, t, d)
    \/ \E f \in Currencies, t \in Currencies : ConvertAmount(Rat(3), f, t, NoDate)
    \/ \E fl \in FromLists, t \in Currencies, days \in 1..2 : GetHistoricalRates(fl, t, days)

SpecRead == InitRead /\ [][NextRead]_vars

----------------------------------------------------------------------------
(* A budgeted trip that is edited while it has expenses *)

\* TripUpdate bodies that change the currency only
CurrencyUpdates == {u \in TripUpdates : u.fields = {"currency_code"}}

\* ExpenseUpdate bodies that change the end date only
EndDateUpdates == {u \in Updates : u.fields = {"end_date"}}

NextLife ==
    \/ /\ trips = <<>>
       /\ \E db \in {NoBudget, Rat(12)} : CreateTripWith(0, MaxDay, "USD", NoBudget, db)
    \/ \E u \in CurrencyUpdates : UpdateTrip(1, u)
    \/ \E c \in Currencies, s \in Dates :
          CreateExpense(1, CategoryIds(1)[1], Rat(6), c, s, NoDate)
    \/ \E id \in 1..MaxExpenses, u \in EndDateUpdates : UpdateExpense(id, 1, u)
    \/ \E id \in 1..MaxExpenses : DeleteExpense(id, 1)
    \/ \E d \in Dates : GetDailyBudgetStatistics(1, d)

SpecLife == Init /\ [][NextLife]_vars

----------------------------------------------------------------------------
(* The scheduler of the rate refresh job: start_scheduler and stop_scheduler *)

\* id='update_exchange_rates'
JobId == "update_exchange_rates"

HasJob(jobs, id) == \E i \in DOMAIN jobs : jobs[i] = id

\* A job store that takes the job whether or not its id is already there
real_add_job_append(jobs, id) == Append(jobs, id)

\* The job reaches the job store; replace_existing=True: a job with the same
\* id is replaced by the new one
real_add_job(jobs, id) == IF HasJob(jobs, id) THEN jobs ELSE Append(jobs, id)

\* scheduler.add_job: a stopped scheduler keeps the job until it is started
add_job(sch, id) ==
    IF sch.running
    THEN [sch EXCEPT !.jobs = real_add_job(@, id)]
    ELSE [sch EXCEPT !.pending = Append(@, id)]

RECURSIVE add_pending(_, _)
add_pending(jobs, pending) ==
    IF pending = <<>> THEN jobs
    ELSE add_pending(real_add_job(jobs, Head(pending)), Tail(pending))

\* scheduler.start()
start(sch) ==
    [running |-> TRUE, pending |-> <<>>, jobs |-> add_pending(sch.jobs, sch.pending)]

\* scheduler.shutdown(): whether the job store keeps its jobs is the library's
\* choice
shutdown(sch, kept) ==
    [sch EXCEPT !.running = FALSE, !.jobs = IF kept THEN @ ELSE <<>>]

start_scheduler(sch) == IF ~sch.running THEN start(add_job(sch, JobId)) ELSE sch

stop_scheduler(sch, kept) == IF sch.running THEN shutdown(sch, kept) ELSE sch

\* start_scheduler(), called by startup_event
StartScheduler ==
    /\ scheduler' = start_scheduler(scheduler)
    /\ last' = [op |-> "start_scheduler", was_running |-> scheduler.running]
    /\ UNCHANGED <<today, exchange_rates, trips, expenses, sessions>>

StopScheduler ==
    \E kept \in BOOLEAN :
        /\ scheduler' = stop_scheduler(scheduler, kept)
        /\ last' = [op |-> "stop_scheduler", was_running |-> scheduler.running]
        /\ UNCHANGED <<today, exchange_rates, trips, expenses, sessions>>

\* The trigger fires: the running scheduler calls update_exchange_rates
RunJob ==
    /\ scheduler.running
    /\ HasJob(scheduler.jobs, JobId)
    /\ UpdateAllRates

NextSched == StartScheduler \/ StopScheduler \/ RunJob \/ AdvanceDay

SpecSched == InitRefresh /\ [][NextSched]_vars

----------------------------------------------------------------------------
\* Properties of the statistics on the whole backend

IsStatsCall == last.op = "get_daily_budget_statistics"

\* C21: a statistics call answers "not found" exactly when no trip has the id;
\* for a trip without expenses it returns a result, with total_spent_today = 0,
\* expense_count_today = 0, one entry per category and the whole daily budget
\* remaining.
C21_NotFoundOrResult ==
    IsStatsCall =>
        /\ (last.result.status = "not_found") = (last.trip_id \notin DOMAIN trips)
        /\ (last.trip_id \in DOMAIN trips /\ OfTrip(last.trip_id) = {}) =>
              /\ last.result.status = "ok"
              /\ last.result.total_spent_today = Zero
              /\ last.result.expense_count_today = 0
              /\ last.result.date = StatsDay
              /\ Len(last.result.by_category_today) = Len(CategoryIds(last.trip_id))
              /\ last.result.remaining_today = StatsBudget
              /\ ~last.result.is_over_budget

\* The statistics of a trip that has no expenses
C21_Witness ==
    /\ IsStatsCall
    /\ last.trip_id \in DOMAIN trips /\ expenses = <<>>
    /\ last.result.status = "ok"
    /\ last.result.total_spent_today = Zero
    /\ last.result.expense_count_today = 0

----------------------------------------------------------------------------
\* Properties of the trip budgets

TripDays(t) == (t.end_date - t.start_date) + 1

\* The budgets of trip t are those of a call given total budget tb only
FromTotal(t, tb) == t.total_budget = tb /\ t.daily_budget = RDivInt(tb, TripDays(t))

\* The budgets of trip t are those of a call given daily budget db only
FromDaily(t, db) == t.daily_budget = db /\ t.total_budget = RMul(db, Rat(TripDays(t)))

AsSupplied(t, tb, db) == t.total_budget = tb /\ t.daily_budget = db

CreatedTrip == last'.op = "create_trip" /\ last'.ok

UpdatedTrip == last'.op = "update_trip" /\ last'.status = "ok"

\* What update_trip does with the budgets it is given, on the trip after it
C22_UpdateStep ==
    UpdatedTrip =>
        LET t == trips'[last'.trip_id]
            u == last'.upd
        IN  /\ u.fields \cap BudgetFields = {"total_budget"} => FromTotal(t, u.total_budget)
            /\ u.fields \cap BudgetFields = {"daily_budget"} => FromDaily(t, u.daily_budget)
            /\ u.fields \cap BudgetFields = BudgetFields =>
                  AsSupplied(t, u.total_budget, u.daily_budget)

\* create_trip and update_trip derive the budget that was not given from the
\* one that was, a budget being given when it is not null
C22_Step ==
    /\ CreatedTrip =>
          LET t == trips'[last'.trip_id]
              tb == last'.total_budget
              db == last'.daily_budget
          IN  /\ (tb # None /\ db = None) => FromTotal(t, tb)
              /\ (db # None /\ tb = None) => FromDaily(t, db)
              /\ (tb # None /\ db # None) => AsSupplied(t, tb, db)
    /\ C22_UpdateStep

C22_AmendedStep ==
    /\ CreatedTrip =>
          LET t == trips'[last'.trip_id]
              tb == last'.total_budget
              db == last'.daily_budget
          IN  IF Truthy(tb) /\ ~Truthy(db) THEN FromTotal(t, tb)
              ELSE IF Truthy(db) /\ ~Truthy(tb) THEN FromDaily(t, db)
              ELSE AsSupplied(t, tb, db)
    /\ C22_UpdateStep

----------------------------------------------------------------------------
\* Properties of concurrent saves

SameTriple ==
    /\ sessions[1].date = sessions[2].date
    /\ sessions[1].from = sessions[2].from /\ sessions[1].to = sessions[2].to

BothDone == \A i \in Sessions : sessions[i].pc = "done"

\* C23: when two save_rate calls for the same (from, to, date) have both
\* ended, however their lookups and commits were interleaved, neither ended
\* with a violation of the uniqueness constraint and the triple has exactly
\* one row, with the rate of one of the two calls.
C23_BothSaved ==
    (sessions # NoSessions /\ BothDone /\ SameTriple) =>
        /\ \A i \in Sessions : sessions[i].outcome = "saved"
        /\ Cardinality(Find(exchange_rates, sessions[1].from, sessions[1].to,
                            sessions[1].date)) = 1
        /\ \E i \in Sessions :
              RowRate(sessions[1].from, sessions[1].to, sessions[1].date)
                  = sessions[i].rate

----------------------------------------------------------------------------
\* Properties of the read path

Distance(a, b) == IF a >= b THEN a - b ELSE b - a

\* The date a get_rate call asked about
AskedDate == IF last.date = NoDate THEN today ELSE last.date

\* The rows of the pair asked about whose date is closest to the date asked
NearestRows ==
    LET rows == FindPair(exchange_rates, last.from, last.to)
    IN  {x \in rows : \A y \in rows :
            Distance(x.date, AskedDate) <= Distance(y.date, AskedDate)}

\* C24: a get_rate call for a pair that is stored in the direction asked only
\* and has no row for the date asked returns the rate of a row of the pair
\* whose date is closest to the date asked.
C24_NearestDate ==
    (/\ last.op = "get_rate" /\ last.from # last.to
     /\ ~HasRow(last.from, last.to, AskedDate)
     /\ HasPair(last.from, last.to) /\ ~HasPair(last.to, last.from))
    => \E x \in NearestRows : last.result = x.rate

ReadOps == {"get_rate", "get_rate_from_db", "convert_amount", "get_historical_rates"}

C25_Step ==
    /\ last'.op \in ReadOps =>
          /\ exchange_rates' = exchange_rates
          /\ last'.calls = <<>>
    /\ (/\ last.op = "get_rate" /\ last'.op = "get_rate"
        /\ last'.from = last.from /\ last'.to = last.to /\ last'.date = last.date)
       => last'.result = last.result

----------------------------------------------------------------------------
\* The cumulative figures against the figures of the single days

\* total_spent_today as the statistics report it for day d of the trip the
\* call was about
SpentOn(d) ==
    get_daily_budget_statistics(trips, expenses, today, last.trip_id, d).total_spent_today

\* The days of the trip before the day asked about
PastDays == trips[last.trip_id].start_date .. (StatsDay - 1)

\* C26: for a trip with a daily budget and a day after the trip's start,
\* cumulative_spent_past is the sum of the total_spent_today reported for the
\* days from the trip's start to the day before, whatever expenses the trip
\* has, those dated before the trip's start included.
C26_PastIsSumOfDays ==
    (/\ IsStats /\ HasPast
     /\ \A i \in OfTrip(last.trip_id) : WellFormed(expenses[i]))
    => last.result.cumulative_spent_past = SumFn([d \in PastDays |-> SpentOn(d)])

----------------------------------------------------------------------------
\* Properties of a trip that is edited while it has expenses

\* C27: whatever create_expense, update_expense and delete_expense have
\* stored, a statistics call for a trip that exists returns a result: no
\* division by a day span of zero ends it.
C27_NeverRaises ==
    (IsStatsCall /\ last.trip_id \in DOMAIN trips) => last.result.status = "ok"

\* C28: every stored expense is converted into the currency its trip has now:
\* an expense in the trip's currency has exchange_rate 1 and
\* amount_in_trip_currency = amount, and an expense in another currency
\* carries the rate of a conversion (none of the rates is 1) and
\* amount_in_trip_currency = amount x exchange_rate.
C28_TripCurrency ==
    \A i \in DOMAIN expenses :
        LET e == expenses[i]
        IN  IF e.currency_code = trips[e.trip_id].currency_code
            THEN e.exchange_rate = One /\ e.amount_in_trip_currency = e.amount
            ELSE /\ e.exchange_rate # One
                 /\ e.amount_in_trip_currency = RMul(e.amount, e.exchange_rate)

BothBudgets(t) == t.total_budget # NoBudget /\ t.daily_budget # NoBudget

\* C29: when no create_trip or update_trip call has been given both budgets,
\* every trip that has a total and a daily budget has
\* total_budget = daily_budget x L, with L the trip's length in days, also
\* after an update_trip that changes only the dates.
C29_TotalIsDailyTimesLength ==
    \A i \in DOMAIN trips :
        BothBudgets(trips[i]) =>
            trips[i].total_budget = RMul(trips[i].daily_budget, Rat(TripDays(trips[i])))

Registered(id) ==
    Cardinality({i \in DOMAIN scheduler.jobs : scheduler.jobs[i] = id})
        + Cardinality({i \in DOMAIN scheduler.pending : scheduler.pending[i] = id})

Untouched == UNCHANGED <<today, exchange_rates, trips, expenses, sessions, scheduler>>

C30_Step ==
    /\ (last'.op = "start_scheduler" /\ last'.was_running) => Untouched
    /\ (last'.op = "stop_scheduler" /\ ~last'.was_running) => Untouched
    /\ Registered(JobId)' <= 1

\* C30: after any sequence of start_scheduler and stop_scheduler calls at most
\* one job with the id 'update_exchange_rates' is registered; a
\* start_scheduler call on a running scheduler and a stop_scheduler call on a
\* stopped one leave the scheduler and all the data as they were.
C30_OneJob == Registered(JobId) <= 1 /\ [][C30_Step]_vars

\* A start_scheduler call found the scheduler running, and the scheduler
\* runs with its one job
C30_Witness ==
    /\ last.op = "start_scheduler"
    /\ last.was_running
    /\ scheduler.running
    /\ Registered(JobId) = 1

============================================================================
